---- MODULE Spec2Model ----
(***************************************************************************)
(* State-machine model of the face-stitch editor: the square selector      *)
(* (SelectionOverlay), the App session (uploads, generation requests, the  *)
(* composite rebuild effect, the compare renderer) and the retry helper of *)
(* the generation service.                                                 *)
(*                                                                         *)
(* Optional values are 0 (image and patch identities), "null" (the error   *)
(* text) or the empty tuple Null with a one-element tuple for a present    *)
(* value (boxes, points, canvases).                                        *)
(***************************************************************************)
EXTENDS Integers, Sequences, FiniteSets, TLC

\* ---------------------------------------------------------------- bounds
\* generation requests (handleGenerate invocations) per behaviour
MaxGen == 2
\* generation requests per behaviour of the editing specification
FewGen == 1
\* reference file reads started per behaviour
MaxUploads == 2
\* reference images the App specification can upload (ImgW/ImgH entries 1..MaxImg)
MaxImg == 2
\* side of the display rect in the App specification
AppRectSide == 1
\* largest side of a display rect in the selector specification
MaxRect == 3
\* width of the comparator's rect in display pixels
SliderW == 2

\* ------------------------------------------------------- program constants
MinSelectionSize == 50
SliderDefault == 50
RetryCount == 3
RetryBaseDelay == 2000
MaxCropDim == 1024

Null == <<>>
Some(v) == <<v>>
NoError == "null"

\* natural sizes of the images the user can pick (img.naturalWidth/naturalHeight)
ImgW == <<120, 180, 90, 40, 2048>>
ImgH == <<120, 120, 300, 200, 1536>>
NatW(i) == IF i = 0 THEN 0 ELSE ImgW[i]
NatH(i) == IF i = 0 THEN 0 ELSE ImgH[i]
AppImages == 1..MaxImg
SelImages == 1..Len(ImgW)
Rects == [w : 1..MaxRect, h : 1..MaxRect]
Gens == 1..MaxGen

VARIABLES
  \* environment
  envKey, aistudio, rect, genBudget,
  \* App state (useState)
  apiKeyReady, characterImage, referenceImage, selection, isGenerating,
  isUploading, resultImage, error, sliderPosition, isDraggingSlider,
  \* App refs and the display canvas
  offscreenResult, refImageElement, display, drawn,
  \* SelectionOverlay state and its img element
  isDragging, startPos, currentBox, imgNatural, imgPending,
  \* asynchronous work in flight
  keyChecked, refReaders, charReader, nUploads, gens, builds,
  \* retry helper of the generation service
  rpc, retries, delay, attempts, waited, errs

envVars == <<envKey, aistudio, rect, genBudget>>
keyVars == <<apiKeyReady, keyChecked>>
ovVars == <<isDragging, startPos, currentBox, imgNatural, imgPending>>
sliderVars == <<sliderPosition, isDraggingSlider>>
upVars == <<refReaders, charReader, nUploads>>
canvasVars == <<offscreenResult, refImageElement, display, drawn, builds>>
retryVars == <<rpc, retries, delay, attempts, waited, errs>>
vars == <<envVars, keyVars, characterImage, referenceImage, selection,
          isGenerating, isUploading, resultImage, error, sliderVars,
          canvasVars, ovVars, upVars, gens, retryVars>>

Abs(n) == IF n < 0 THEN -n ELSE n
Max(a, b) == IF a > b THEN a ELSE b
Min(a, b) == IF a < b THEN a ELSE b
\* ScaleFloor scaling by display / natural
ScaleFloor_Inverted(d, natural, disp) ==
  IF natural = 0 THEN 0 ELSE (d * disp) \div natural

\* Math.floor(d * (natural / display)) for d >= 0
ScaleFloor(d, natural, disp) == (d * natural) \div disp

\* ------------------------------------------------- compare renderer (App)
\* the display canvas exists while the compare view is rendered
CanvasMounted(ref, res) == ref # 0 /\ res # 0

\* renderDisplay: what one call draws (Null: it returned without drawing).
\* ref, res, slider come from the closure; the refs are read live.
renderDisplay(ref, res, slider, canvasOk, baseEl, off) ==
  IF ~canvasOk \/ ref = 0 \/ baseEl = 0 THEN Null
  ELSE Some([base |-> baseEl,
             comp |-> IF off # Null /\ res # 0 THEN off ELSE Null,
             split |-> slider])

NoBuild == [pc |-> "none", isMounted |-> FALSE, ref |-> 0, sel |-> Null,
            slider |-> 0, base |-> 0]

\* the first step of createComposite: the cached base is reused when its src
\* is the reference of this render
NeedsBaseLoad(baseEl, ref) == baseEl = 0 \/ baseEl # ref

\* The effects of the commit that follows a state change: the composite
\* effect (cleanup of the previous run, then a new createComposite) and the
\* render effect.  Reads the new values of the state and of the refs.
RunEffects ==
  LET depsC == <<resultImage', referenceImage', selection'>>
                 # <<resultImage, referenceImage, selection>>
      cleaned == [g \in Gens |->
                    IF depsC THEN [builds[g] EXCEPT !.isMounted = FALSE]
                    ELSE builds[g]]
      start == depsC /\ resultImage' # 0 /\ referenceImage' # 0
                     /\ selection' # Null
      depsR == <<sliderPosition', resultImage'>>
                 # <<sliderPosition, resultImage>>
      canvasOk == CanvasMounted(referenceImage', resultImage')
      sameCanvas == canvasOk /\ CanvasMounted(referenceImage, resultImage)
      draw == IF depsR
              THEN renderDisplay(referenceImage', resultImage', sliderPosition',
                                 canvasOk, refImageElement', offscreenResult')
              ELSE Null
  IN /\ builds' =
          IF start
          THEN [cleaned EXCEPT ![resultImage'] =
                  [pc |-> IF NeedsBaseLoad(refImageElement', referenceImage')
                          THEN "loadBase" ELSE "loadPatch",
                   isMounted |-> TRUE, ref |-> referenceImage',
                   sel |-> selection', slider |-> sliderPosition',
                   base |-> IF NeedsBaseLoad(refImageElement', referenceImage')
                            THEN 0 ELSE refImageElement']]
          ELSE cleaned
     /\ drawn' = draw
     /\ display' = IF draw # Null THEN draw
                   ELSE IF sameCanvas THEN display ELSE Null

\* ------------------------------------------------------ SelectionOverlay
OverlayMounted(ref, res) == ref # 0 /\ res = 0

\* mounting, unmounting and src changes of the overlay that a change of
\* referenceImage / resultImage brings
OverlayAfter ==
  LET was == OverlayMounted(referenceImage, resultImage)
      now == OverlayMounted(referenceImage', resultImage')
  IN IF ~now
     THEN /\ isDragging' = FALSE /\ startPos' = Null /\ currentBox' = Null
          /\ imgNatural' = 0 /\ imgPending' = FALSE
     ELSE IF ~was
     THEN /\ isDragging' = FALSE /\ startPos' = Null /\ currentBox' = Null
          /\ imgNatural' = 0 /\ imgPending' = TRUE
     ELSE /\ UNCHANGED <<isDragging, startPos, currentBox, imgNatural>>
          /\ imgPending' = (imgPending \/ referenceImage' # referenceImage)

\* the display coordinate the redraw effect computes for a native one,
\* n * (display / natural), as a fraction
ToDisplay(n, natural, disp) == [num |-> n * disp, den |-> natural]

\* NaturalBox with the smaller of the two deltas as the side
NaturalBox_MinSide(start, cx, cy, r, natW, natH) ==
  LET width == cx - start.x
      height == cy - start.y
      size == Min(Abs(width), Abs(height))
      ox0 == IF width < 0 THEN start.x - size ELSE start.x
      oy0 == IF height < 0 THEN start.y - size ELSE start.y
      originX == IF ox0 < 0 THEN 0 ELSE ox0
      originY == IF oy0 < 0 THEN 0 ELSE oy0
      naturalW == ScaleFloor(size, natW, r.w)
  IN [x |-> ScaleFloor(originX, natW, r.w),
      y |-> ScaleFloor(originY, natH, r.h),
      width |-> naturalW,
      height |-> naturalW]

\* NaturalBox with the height taken from the vertical scale factor
NaturalBox_FreeHeight(start, cx, cy, r, natW, natH) ==
  LET width == cx - start.x
      height == cy - start.y
      size == Max(Abs(width), Abs(height))
      ox0 == IF width < 0 THEN start.x - size ELSE start.x
      oy0 == IF height < 0 THEN start.y - size ELSE start.y
      originX == IF ox0 < 0 THEN 0 ELSE ox0
      originY == IF oy0 < 0 THEN 0 ELSE oy0
  IN [x |-> ScaleFloor(originX, natW, r.w),
      y |-> ScaleFloor(originY, natH, r.h),
      width |-> ScaleFloor(size, natW, r.w),
      height |-> ScaleFloor(size, natH, r.h)]

\* the native box handleMouseMove builds from the anchor and the pointer
NaturalBox(start, cx, cy, r, natW, natH) ==
  LET width == cx - start.x
      height == cy - start.y
      size == Max(Abs(width), Abs(height))
      ox0 == IF width < 0 THEN start.x - size ELSE start.x
      oy0 == IF height < 0 THEN start.y - size ELSE start.y
      originX == IF ox0 < 0 THEN 0 ELSE ox0
      originY == IF oy0 < 0 THEN 0 ELSE oy0
      naturalW == ScaleFloor(size, natW, r.w)
  IN [x |-> ScaleFloor(originX, natW, r.w),
      y |-> ScaleFloor(originY, natH, r.h),
      width |-> naturalW,
      height |-> naturalW]

\* IsCommitted accepting every non-empty box
IsCommitted_NonEmpty(box) == box.width > 0

\* the minimum-size test of handleMouseUp
IsCommitted(box) == box.width > MinSelectionSize

\* handleMouseDown without the onSelectionChange(null) notification
handleMouseDown_Silent(x, y) ==
  /\ OverlayMounted(referenceImage, resultImage)
  /\ startPos' = Some([x |-> x, y |-> y])
  /\ isDragging' = TRUE
  /\ currentBox' = Null
  /\ selection' = selection
  /\ UNCHANGED <<imgNatural, imgPending>>
  /\ UNCHANGED <<envVars, keyVars, characterImage, referenceImage, isGenerating,
                 isUploading, resultImage, error, sliderVars, offscreenResult,
                 refImageElement, upVars, gens, retryVars>>
  /\ RunEffects

handleMouseDown(x, y) ==
  /\ OverlayMounted(referenceImage, resultImage)
  /\ startPos' = Some([x |-> x, y |-> y])
  /\ isDragging' = TRUE
  /\ currentBox' = Null
  /\ selection' = Null
  /\ UNCHANGED <<imgNatural, imgPending>>
  /\ UNCHANGED <<envVars, keyVars, characterImage, referenceImage, isGenerating,
                 isUploading, resultImage, error, sliderVars, offscreenResult,
                 refImageElement, upVars, gens, retryVars>>
  /\ RunEffects

\* handleMouseMove notifying the consumer of every live box
handleMouseMove_Notifying(x, y) ==
  /\ OverlayMounted(referenceImage, resultImage)
  /\ isDragging /\ startPos # Null
  /\ currentBox' = Some(NaturalBox(startPos[1], x, y, rect,
                                   NatW(imgNatural), NatH(imgNatural)))
  /\ selection' = currentBox'
  /\ UNCHANGED <<isDragging, startPos, imgNatural, imgPending>>
  /\ UNCHANGED <<envVars, keyVars, characterImage, referenceImage, isGenerating,
                 isUploading, resultImage, error, sliderVars, offscreenResult,
                 refImageElement, upVars, gens, retryVars>>
  /\ RunEffects

handleMouseMove(x, y) ==
  /\ OverlayMounted(referenceImage, resultImage)
  /\ isDragging /\ startPos # Null
  /\ currentBox' = Some(NaturalBox(startPos[1], x, y, rect,
                                   NatW(imgNatural), NatH(imgNatural)))
  /\ UNCHANGED <<isDragging, startPos, imgNatural, imgPending, selection>>
  /\ UNCHANGED <<envVars, keyVars, characterImage, referenceImage, isGenerating,
                 isUploading, resultImage, error, sliderVars, offscreenResult,
                 refImageElement, upVars, gens, retryVars>>
  /\ RunEffects

\* onMouseUp and onMouseLeave
handleMouseUp ==
  /\ OverlayMounted(referenceImage, resultImage)
  /\ isDragging' = FALSE
  /\ IF currentBox # Null
     THEN IF IsCommitted(currentBox[1])
          THEN selection' = currentBox /\ currentBox' = currentBox
          ELSE selection' = Null /\ currentBox' = Null
     ELSE UNCHANGED <<selection, currentBox>>
  /\ UNCHANGED <<startPos, imgNatural, imgPending>>
  /\ UNCHANGED <<envVars, keyVars, characterImage, referenceImage, isGenerating,
                 isUploading, resultImage, error, sliderVars, offscreenResult,
                 refImageElement, upVars, gens, retryVars>>
  /\ RunEffects

\* the img element's onLoad: the new src is decoded, the box is reset
imgOnLoad ==
  /\ OverlayMounted(referenceImage, resultImage)
  /\ imgPending
  /\ imgPending' = FALSE
  /\ imgNatural' = referenceImage
  /\ currentBox' = Null
  /\ drawn' = Null
  /\ UNCHANGED <<isDragging, startPos>>
  /\ UNCHANGED <<envVars, keyVars, characterImage, referenceImage, selection,
                 isGenerating, isUploading, resultImage, error, sliderVars,
                 offscreenResult, refImageElement, display, builds, upVars,
                 gens, retryVars>>

\* a layout change: getBoundingClientRect answers differently from now on;
\* the overlay's resize handler re-sets the same box
Resize(r) ==
  /\ r # rect
  /\ rect' = r
  /\ drawn' = Null
  /\ UNCHANGED <<envKey, aistudio, genBudget, keyVars, characterImage,
                 referenceImage, selection, isGenerating, isUploading, resultImage, error,
                 sliderVars, offscreenResult, refImageElement, display, builds,
                 ovVars, upVars, gens, retryVars>>

NoGen == [pc |-> "idle", char |-> 0, ref |-> 0, sel |-> Null,
          call |-> "none", timer |-> "none", prev |-> 0]

\* ------------------------------------------------------------- uploads
\* handleReferenceUpload: the input exists only while no reference is shown
handleReferenceUpload(img) ==
  /\ referenceImage = 0
  /\ nUploads < MaxUploads
  /\ nUploads' = nUploads + 1
  /\ isUploading' = TRUE
  /\ refReaders' = [refReaders EXCEPT ![img] = @ + 1]
  /\ drawn' = Null
  /\ UNCHANGED <<envVars, keyVars, characterImage, referenceImage, selection,
                 isGenerating, resultImage, error, sliderVars, offscreenResult,
                 refImageElement, display, builds, ovVars, charReader, gens,
                 retryVars>>

\* reader.onload of handleReferenceUpload
referenceReaderOnLoad(img) ==
  /\ refReaders[img] > 0
  /\ refReaders' = [refReaders EXCEPT ![img] = @ - 1]
  /\ referenceImage' = img
  /\ refImageElement' = 0
  /\ selection' = Null
  /\ resultImage' = 0
  /\ sliderPosition' = SliderDefault
  /\ isUploading' = FALSE
  /\ UNCHANGED <<envVars, keyVars, characterImage, isGenerating, error,
                 isDraggingSlider, offscreenResult, charReader, nUploads, gens,
                 retryVars>>
  /\ OverlayAfter
  /\ RunEffects

\* the read of handleReferenceUpload fails: the reader has no onerror
\* handler, so nothing runs and no state is set
referenceReaderOnError(img) ==
  /\ refReaders[img] > 0
  /\ refReaders' = [refReaders EXCEPT ![img] = @ - 1]
  /\ UNCHANGED <<envVars, keyVars, characterImage, referenceImage, selection,
                 isGenerating, isUploading, resultImage, error, sliderVars,
                 canvasVars, ovVars, charReader, nUploads, gens, retryVars>>

\* handleCharacterUpload up to its await: the input is rendered while there is
\* no character image and is disabled while isUploading
handleCharacterUpload ==
  /\ characterImage = 0 /\ ~isUploading /\ charReader = 0
  /\ charReader' = 1
  /\ isUploading' = TRUE
  /\ error' = NoError
  /\ drawn' = Null
  /\ UNCHANGED <<envVars, keyVars, characterImage, referenceImage, selection,
                 isGenerating, resultImage, sliderVars, offscreenResult,
                 refImageElement, display, builds, ovVars, refReaders,
                 nUploads, gens, retryVars>>

\* resizeImage settles: the try, catch and finally of handleCharacterUpload
characterUploadSettled(ok) ==
  /\ charReader = 1
  /\ charReader' = 0
  /\ IF ok THEN characterImage' = 1 /\ error' = error
     ELSE characterImage' = characterImage /\ error' = "character image failed"
  /\ isUploading' = FALSE
  /\ drawn' = Null
  /\ UNCHANGED <<envVars, keyVars, referenceImage, selection, isGenerating,
                 resultImage, sliderVars, offscreenResult, refImageElement,
                 display, builds, ovVars, refReaders, nUploads, gens,
                 retryVars>>

\* the Remove button of the source face
removeCharacter ==
  /\ characterImage # 0
  /\ characterImage' = 0
  /\ drawn' = Null
  /\ UNCHANGED <<envVars, keyVars, referenceImage, selection, isGenerating,
                 isUploading, resultImage, error, sliderVars, offscreenResult,
                 refImageElement, display, builds, ovVars, upVars, gens,
                 retryVars>>

\* ------------------------------------------------------------- API key
\* the mount effect's checkApiKey, when its await settles
checkApiKey(hasKey) ==
  /\ ~keyChecked
  /\ keyChecked' = TRUE
  /\ apiKeyReady' = IF aistudio THEN hasKey ELSE IF envKey THEN TRUE
                    ELSE apiKeyReady
  /\ drawn' = Null
  /\ UNCHANGED <<envVars, characterImage, referenceImage, selection,
                 isGenerating, isUploading, resultImage, error, sliderVars,
                 offscreenResult, refImageElement, display, builds, ovVars,
                 upVars, gens, retryVars>>

\* handleSelectKey (the header button), when its awaits settle
handleSelectKey(outcome) ==
  /\ aistudio
  /\ apiKeyReady' = IF outcome = "throw" THEN apiKeyReady ELSE outcome = "key"
  /\ error' = IF outcome = "throw" THEN "connect key failed"
              ELSE IF outcome = "key" THEN NoError ELSE error
  /\ drawn' = Null
  /\ UNCHANGED <<envVars, keyChecked, characterImage, referenceImage,
                 selection, isGenerating, isUploading, resultImage, sliderVars,
                 offscreenResult, refImageElement, display, builds, ovVars,
                 upVars, gens, retryVars>>

\* ------------------------------------------------------------ getCroppedImg
\* Math.round(a / b) for positive a and b
RoundDiv(a, b) == (2 * a + b) \div (2 * b)

\* CropSize without the cap
CropSize_Uncapped(w, h) == [w |-> w, h |-> h]

\* the size of the canvas getCroppedImg draws the crop into
CropSize(w, h) ==
  IF w > MaxCropDim \/ h > MaxCropDim
  THEN IF w > h
       THEN [w |-> MaxCropDim, h |-> RoundDiv(MaxCropDim * h, w)]
       ELSE [w |-> RoundDiv(MaxCropDim * w, h), h |-> MaxCropDim]
  ELSE [w |-> w, h |-> h]

\* the bitmap handed to generateFaceSwap by a request whose crop succeeded
CropOf(gen) == CropSize(gen.sel[1].width, gen.sel[1].height)

\* -------------------------------------------------------- handleGenerate
\* GenerateEnabled that does not look at the source face
GenerateEnabled_NoSource ==
  /\ referenceImage # 0 /\ selection # Null
  /\ ~isGenerating /\ ~isUploading

\* the generate button's disabled condition
GenerateEnabled ==
  /\ characterImage # 0 /\ referenceImage # 0 /\ selection # Null
  /\ ~isGenerating /\ ~isUploading

FreshGen(g) ==
  /\ g <= genBudget
  /\ gens[g].pc = "idle"
  /\ \A h \in Gens : h < g => gens[h].pc # "idle"

\* setIsGenerating(true); setError(null); setResultImage(null), then the
\* handler waits for getCroppedImg.  The closure keeps the images and the
\* selection of the render the button was clicked in.
BeginRequest(g, char, ref, sel) ==
  /\ isGenerating' = TRUE
  /\ error' = NoError
  /\ resultImage' = 0
  /\ gens' = [gens EXCEPT ![g] = [pc |-> "awaitCrop", char |-> char,
                                  ref |-> ref, sel |-> sel, call |-> "none",
                                  timer |-> "none", prev |-> resultImage]]

\* a click on the generate button, up to the first await (or return)
handleGenerate(g) ==
  /\ GenerateEnabled
  /\ FreshGen(g)
  /\ selection[1].width > 0 /\ selection[1].height > 0
  /\ IF apiKeyReady \/ envKey
     THEN /\ BeginRequest(g, characterImage, referenceImage, selection)
          /\ UNCHANGED apiKeyReady
     ELSE IF aistudio
     THEN /\ gens' = [gens EXCEPT ![g] = [NoGen EXCEPT !.pc = "awaitKey",
                         !.char = characterImage, !.ref = referenceImage,
                         !.sel = selection]]
          /\ UNCHANGED <<apiKeyReady, isGenerating, error, resultImage>>
     ELSE /\ error' = "API Key system not found"
          /\ gens' = [gens EXCEPT ![g] = [NoGen EXCEPT !.pc = "done"]]
          /\ UNCHANGED <<apiKeyReady, isGenerating, resultImage>>
  /\ UNCHANGED <<envVars, keyChecked, characterImage, referenceImage,
                 selection, isUploading, sliderVars, offscreenResult,
                 refImageElement, upVars, retryVars>>
  /\ OverlayAfter
  /\ RunEffects

\* the first test of handleGenerate
MissingInput(char, ref, sel) == char = 0 \/ ref = 0 \/ sel = Null

MissingInputMessage == "Please upload both images and select a region"

\* handleGenerate called while an input is missing: it sets the message and
\* returns.  The button is disabled in these states, so this is the handler
\* called by something other than a click on it.
generateRefused ==
  /\ MissingInput(characterImage, referenceImage, selection)
  /\ error' = MissingInputMessage
  /\ drawn' = Null
  /\ UNCHANGED <<envVars, keyVars, characterImage, referenceImage, selection,
                 isGenerating, isUploading, resultImage, sliderVars,
                 offscreenResult, refImageElement, display, builds, ovVars,
                 upVars, gens, retryVars>>

\* openSelectKey / hasSelectedApiKey settle inside handleGenerate
keySelected(g, outcome) ==
  /\ gens[g].pc = "awaitKey"
  /\ IF outcome = "key"
     THEN /\ apiKeyReady' = TRUE
          /\ BeginRequest(g, gens[g].char, gens[g].ref, gens[g].sel)
     ELSE IF outcome = "nokey"
     THEN /\ apiKeyReady' = FALSE
          /\ error' = "No API Key selected"
          /\ gens' = [gens EXCEPT ![g].pc = "done"]
          /\ UNCHANGED <<isGenerating, resultImage>>
     ELSE /\ gens' = [gens EXCEPT ![g].pc = "done"]
          /\ UNCHANGED <<apiKeyReady, error, isGenerating, resultImage>>
  /\ UNCHANGED <<envVars, keyChecked, characterImage, referenceImage,
                 selection, isUploading, sliderVars, offscreenResult,
                 refImageElement, upVars, retryVars>>
  /\ OverlayAfter
  /\ RunEffects

\* getCroppedImg settles: on success generateFaceSwap is called and the
\* 90-second timer is armed; a rejection goes to catch and finally
cropSettled(g, ok) ==
  /\ gens[g].pc = "awaitCrop"
  /\ IF ok
     THEN /\ gens' = [gens EXCEPT ![g].pc = "awaitRace", ![g].call = "running",
                                  ![g].timer = "armed"]
          /\ UNCHANGED <<error, isGenerating>>
     ELSE /\ gens' = [gens EXCEPT ![g].pc = "done"]
          /\ error' = "Generation failed"
          /\ isGenerating' = FALSE
  /\ drawn' = Null
  /\ UNCHANGED <<envVars, keyVars, characterImage, referenceImage, selection,
                 isUploading, resultImage, sliderVars, offscreenResult,
                 refImageElement, display, builds, ovVars, upVars, retryVars>>

\* RaceSettled whose timeout branch leaves the generating flag set
RaceSettled_TimeoutKeepsFlag(g, outcome) ==
  /\ gens[g].pc = "awaitRace"
  /\ resultImage' = IF outcome = "ok" THEN g ELSE resultImage
  /\ error' = IF outcome = "ok" THEN error
              ELSE IF outcome = "apiKey" THEN "API Key is missing"
              ELSE IF outcome = "timeout" THEN "Request timed out"
              ELSE "service error"
  /\ apiKeyReady' = IF outcome = "apiKey" THEN FALSE ELSE apiKeyReady
  /\ isGenerating' = IF outcome = "timeout" THEN isGenerating ELSE FALSE

\* what the handler does when Promise.race settles for it
RaceSettled(g, outcome) ==
  /\ gens[g].pc = "awaitRace"
  /\ resultImage' = IF outcome = "ok" THEN g ELSE resultImage
  /\ error' = IF outcome = "ok" THEN error
              ELSE IF outcome = "apiKey" THEN "API Key is missing"
              ELSE IF outcome = "timeout" THEN "Request timed out"
              ELSE "service error"
  /\ apiKeyReady' = IF outcome = "apiKey" THEN FALSE ELSE apiKeyReady
  /\ isGenerating' = FALSE

\* RaceLost with the late settlement still stored as the result
RaceLost_Applies(g) ==
  /\ gens[g].pc # "awaitRace"
  /\ resultImage' = g
  /\ UNCHANGED <<error, apiKeyReady, isGenerating>>

\* the race was already settled: the late settlement is dropped
RaceLost(g) ==
  /\ gens[g].pc # "awaitRace"
  /\ UNCHANGED <<resultImage, error, apiKeyReady, isGenerating>>

\* the promise of generateFaceSwap settles
callSettled(g, outcome) ==
  /\ gens[g].call = "running"
  /\ gens' = [gens EXCEPT ![g].call = "settled",
                ![g].pc = IF @ = "awaitRace" THEN "done" ELSE @]
  /\ IF gens[g].pc = "awaitRace" THEN RaceSettled(g, outcome) ELSE RaceLost(g)
  /\ UNCHANGED <<envVars, keyChecked, characterImage, referenceImage,
                 selection, isUploading, sliderVars, offscreenResult,
                 refImageElement, upVars, retryVars>>
  /\ OverlayAfter
  /\ RunEffects

\* the 90-second timer fires (it is never cleared)
timeoutFired(g) ==
  /\ gens[g].timer = "armed"
  /\ gens' = [gens EXCEPT ![g].timer = "fired",
                ![g].pc = IF @ = "awaitRace" THEN "done" ELSE @]
  /\ IF gens[g].pc = "awaitRace" THEN RaceSettled(g, "timeout") ELSE RaceLost(g)
  /\ UNCHANGED <<envVars, keyChecked, characterImage, referenceImage,
                 selection, isUploading, sliderVars, offscreenResult,
                 refImageElement, upVars, retryVars>>
  /\ OverlayAfter
  /\ RunEffects

\* the Undo / Clear Result button of the compare view
clearResult ==
  /\ CanvasMounted(referenceImage, resultImage)
  /\ resultImage' = 0
  /\ UNCHANGED <<envVars, keyVars, characterImage, referenceImage, selection,
                 isGenerating, isUploading, error, sliderVars, offscreenResult,
                 refImageElement, upVars, gens, retryVars>>
  /\ OverlayAfter
  /\ RunEffects

\* ------------------------------------------------------------- comparator
\* SliderValue without the clamp of the pointer offset
SliderValue_Unclamped(px) == (px * 100) \div SliderW

\* Math.max(0, Math.min(clientX - rect.left, rect.width)) / rect.width * 100
SliderValue(px) == (Max(0, Min(px, SliderW)) * 100) \div SliderW
\* pointer positions relative to the comparator's rect, one pixel outside it
\* on either side included
SliderPointer == (0 - 1)..(SliderW + 1)

handleSliderMouseDown(px) ==
  /\ CanvasMounted(referenceImage, resultImage)
  /\ isDraggingSlider' = TRUE
  /\ sliderPosition' = SliderValue(px)
  /\ UNCHANGED <<envVars, keyVars, characterImage, referenceImage, selection,
                 isGenerating, isUploading, resultImage, error,
                 offscreenResult, refImageElement, ovVars, upVars, gens,
                 retryVars>>
  /\ RunEffects

handleSliderMouseMove(px) ==
  /\ CanvasMounted(referenceImage, resultImage)
  /\ isDraggingSlider
  /\ sliderPosition' = SliderValue(px)
  /\ UNCHANGED <<envVars, keyVars, characterImage, referenceImage, selection,
                 isGenerating, isUploading, resultImage, error,
                 isDraggingSlider, offscreenResult, refImageElement, ovVars,
                 upVars, gens, retryVars>>
  /\ RunEffects

\* onMouseUp / onMouseLeave of the root element
sliderRelease ==
  /\ isDraggingSlider
  /\ isDraggingSlider' = FALSE
  /\ drawn' = Null
  /\ UNCHANGED <<envVars, keyVars, characterImage, referenceImage, selection,
                 isGenerating, isUploading, resultImage, error, sliderPosition,
                 offscreenResult, refImageElement, display, builds, ovVars,
                 upVars, gens, retryVars>>

\* ------------------------------------------------------- createComposite
\* await loadImage(referenceImage) settles: the element is cached before
\* any isMounted test; a rejection goes to the catch
baseLoaded(g, ok) ==
  /\ builds[g].pc = "loadBase"
  /\ IF ok
     THEN /\ refImageElement' = builds[g].ref
          /\ builds' = [builds EXCEPT ![g].pc = "loadPatch",
                                      ![g].base = builds[g].ref]
          /\ error' = error
     ELSE /\ refImageElement' = refImageElement
          /\ builds' = [builds EXCEPT ![g].pc = "done"]
          /\ error' = "Failed to create comparison view"
  /\ drawn' = Null
  /\ UNCHANGED <<envVars, keyVars, characterImage, referenceImage, selection,
                 isGenerating, isUploading, resultImage, sliderVars,
                 offscreenResult, display, ovVars, upVars, gens, retryVars>>

\* the composite canvas createComposite stores: the base it drew, the patch
\* and the target box
Composite(b, g) == [ref |-> b.base, patch |-> g, sel |-> b.sel]

\* StillRelevant passing every run
StillRelevant_Always(b) == b.isMounted \/ ~b.isMounted

\* the isMounted test after the decodes
StillRelevant(b) == b.isMounted

\* patchLoaded whose catch surfaces nothing
patchLoaded_Silent(g, ok) ==
  /\ builds[g].pc = "loadPatch"
  /\ IF ~ok
     THEN /\ builds' = [builds EXCEPT ![g].pc = "done"]
          /\ UNCHANGED <<error, offscreenResult>>
     ELSE IF ~builds[g].isMounted
     THEN /\ builds' = [builds EXCEPT ![g].pc = "done"]
          /\ UNCHANGED <<error, offscreenResult>>
     ELSE /\ builds' = [builds EXCEPT ![g].pc = "raf"]
          /\ offscreenResult' = Some([ref |-> builds[g].base, patch |-> g,
                                      sel |-> builds[g].sel])
          /\ error' = error
  /\ drawn' = Null
  /\ UNCHANGED <<envVars, keyVars, characterImage, referenceImage, selection,
                 isGenerating, isUploading, resultImage, sliderVars,
                 refImageElement, display, ovVars, upVars, gens, retryVars>>

\* await loadImage(resultImage) settles: a superseded run returns, the other
\* builds the composite, stores it and schedules renderDisplay
patchLoaded(g, ok) ==
  /\ builds[g].pc = "loadPatch"
  /\ IF ~ok
     THEN /\ builds' = [builds EXCEPT ![g].pc = "done"]
          /\ error' = "Failed to create comparison view"
          /\ offscreenResult' = offscreenResult
     ELSE IF ~StillRelevant(builds[g])
     THEN /\ builds' = [builds EXCEPT ![g].pc = "done"]
          /\ UNCHANGED <<error, offscreenResult>>
     ELSE /\ builds' = [builds EXCEPT ![g].pc = "raf"]
          /\ offscreenResult' = Some(Composite(builds[g], g))
          /\ error' = error
  /\ drawn' = Null
  /\ UNCHANGED <<envVars, keyVars, characterImage, referenceImage, selection,
                 isGenerating, isUploading, resultImage, sliderVars,
                 refImageElement, display, ovVars, upVars, gens, retryVars>>

\* requestAnimationFrame(renderDisplay): the renderDisplay of the render the
\* effect ran in, so its referenceImage, resultImage and sliderPosition are
\* that render's
animationFrame(g) ==
  /\ builds[g].pc = "raf"
  /\ builds' = [builds EXCEPT ![g].pc = "done"]
  /\ LET draw == renderDisplay(builds[g].ref, g, builds[g].slider,
                               CanvasMounted(referenceImage, resultImage),
                               refImageElement, offscreenResult)
     IN /\ drawn' = draw
        /\ display' = IF draw # Null THEN draw ELSE display
  /\ UNCHANGED <<envVars, keyVars, characterImage, referenceImage, selection,
                 isGenerating, isUploading, resultImage, error, sliderVars,
                 offscreenResult, refImageElement, ovVars, upVars, gens,
                 retryVars>>

\* --------------------------------------------------------- pixel content
\* the composite canvas takes the natural size of the base it drew
CompositeWidth(c) == NatW(c.ref)
CompositeHeight(c) == NatH(c.ref)

\* the rectangle the feathered patch is drawn into: Math.round of the
\* selection's fields (integers already)
TargetRect(c) == [x |-> c.sel[1].x, y |-> c.sel[1].y,
                  w |-> c.sel[1].width, h |-> c.sel[1].height]

\* CompositePixel with the patch drawn over a rectangle that is larger than
\* the selection by 30% on every side
CompositePixel_Bleeding(c, x, y) ==
  LET t == TargetRect(c)
  IN IF /\ 100 * x >= 100 * t.x - 30 * t.w
        /\ 100 * x < 100 * (t.x + t.w) + 30 * t.w
        /\ 100 * y >= 100 * t.y - 30 * t.h
        /\ 100 * y < 100 * (t.y + t.h) + 30 * t.h
     THEN "blend"
     ELSE "base"

\* where pixel (x, y) of the composite comes from: the base outside the
\* target rectangle; inside it the patch where the mask is solid (the centre,
\* 15% away from every edge) and a blend of patch and base in the feather
CompositePixel(c, x, y) ==
  LET t == TargetRect(c)
  IN IF x >= t.x /\ x < t.x + t.w /\ y >= t.y /\ y < t.y + t.h
     THEN IF /\ 100 * (x - t.x) >= 15 * t.w
             /\ 100 * (x + 1 - t.x) <= 85 * t.w
             /\ 100 * (y - t.y) >= 15 * t.h
             /\ 100 * (y + 1 - t.y) <= 85 * t.h
          THEN "patch"
          ELSE "blend"
     ELSE "base"

\* DisplayColumn with the composite shown right of the split
DisplayColumn_Swapped(f, x) ==
  IF f.comp = Null THEN "base"
  ELSE IF x >= CompositeWidth(f.comp[1]) THEN "base"
  ELSE IF 100 * x >= NatW(f.base) * f.split THEN "composite"
  ELSE IF 100 * (x + 1) <= NatW(f.base) * f.split THEN "base"
  ELSE "mixed"

\* where column x of a drawn frame comes from: the base is drawn over the
\* whole canvas, then the composite clipped to rect(0, 0, splitX, h) with
\* splitX = w * sliderPosition / 100; the column the split cuts is mixed
DisplayColumn(f, x) ==
  IF f.comp = Null THEN "base"
  ELSE IF x >= CompositeWidth(f.comp[1]) THEN "base"
  ELSE IF 100 * (x + 1) <= NatW(f.base) * f.split THEN "composite"
  ELSE IF 100 * x >= NatW(f.base) * f.split THEN "base"
  ELSE "mixed"

\* ------------------------------------------------- generation service
\* what a failed attempt throws: error.status, error.code (0: the field is
\* undefined), error.message and the markers the message contains
TransportErrors ==
  { [status |-> 429, code |-> 0, marks |-> {},
     message |-> "Resource exhausted"],
    [status |-> 500, code |-> 0, marks |-> {}, message |-> "Internal error"],
    [status |-> 503, code |-> 0, marks |-> {"UNAVAILABLE"},
     message |-> "UNAVAILABLE"],
    [status |-> 0, code |-> 504, marks |-> {"Deadline expired"},
     message |-> "Deadline expired"],
    [status |-> 0, code |-> 0, marks |-> {"quota"},
     message |-> "You exceeded your current quota"],
    [status |-> 400, code |-> 0, marks |-> {}, message |-> "Bad request"] }
RateLimited == [status |-> 429, code |-> 0, marks |-> {},
                message |-> "Resource exhausted"]
MissingKey == [status |-> 0, code |-> 0, marks |-> {"API Key"},
               message |-> "API Key is missing from environment"]

\* the text parts of a response that carries no image ("": no text part)
DiagnosticTexts == {"", "I cannot edit this face", "quota exceeded",
                    "TIMEOUT while rendering"}
\* the markers of isTransient that a diagnostic text contains
TextMarks(t) == IF t = "quota exceeded" THEN {"quota"}
                ELSE IF t = "TIMEOUT while rendering" THEN {"TIMEOUT"}
                ELSE {}
\* the answers of generateContent that generateOp inspects
Responses == [candidate : BOOLEAN,
              finishReason : {"STOP", "IMAGE_SAFETY", "SAFETY"},
              image : BOOLEAN, text : DiagnosticTexts]

\* generateOp's safety checks: no candidate, IMAGE_SAFETY or SAFETY
IsBlocked(r) == ~r.candidate \/ r.finishReason \in {"IMAGE_SAFETY", "SAFETY"}

\* generateOp returns the image part of an unblocked candidate
ReturnsImage(r) == ~IsBlocked(r) /\ r.image

\* the Error generateOp throws for an answer without a usable image
ResponseError(r) ==
  IF ~r.candidate
  THEN [status |-> 0, code |-> 0, marks |-> {"blocked"},
        message |-> "The model returned no candidates. The request may have been blocked entirely."]
  ELSE IF r.finishReason = "IMAGE_SAFETY"
  THEN [status |-> 0, code |-> 0, marks |-> {"blocked"},
        message |-> "Generation blocked by Image Safety filters."]
  ELSE IF r.finishReason = "SAFETY"
  THEN [status |-> 0, code |-> 0, marks |-> {"blocked"},
        message |-> "The request was blocked by general safety settings."]
  ELSE [status |-> 0, code |-> 0, marks |-> {"no image"} \cup TextMarks(r.text),
        message |-> "Model returned status '" \o r.finishReason
                    \o "' but no image. Message: "
                    \o (IF r.text = "" THEN "No text content returned."
                        ELSE r.text)]

ServiceErrors ==
  TransportErrors \cup {ResponseError(r) : r \in {q \in Responses : ~ReturnsImage(q)}}

\* IsTransient counting every thrown error as transient
IsTransient_Every(e) == e.status >= 0

\* retry's isTransient
IsTransient(e) ==
  \/ e.status \in {429, 500, 502, 503, 504}
  \/ e.code \in {503, 504}
  \/ e.marks \cap {"Deadline expired", "UNAVAILABLE", "TIMEOUT", "quota"} # {}

\* retry's test before it waits and calls itself again
ShouldRetry(left, e) == left > 0 /\ IsTransient(e)

\* NextDelay growing by the base delay instead of doubling
NextDelay_Linear(d) == d + RetryBaseDelay

\* the delay retry passes to its next call
NextDelay(d) == d * 2

\* generateFaceSwap up to its retry call: the API key is read first
generateFaceSwap(hasKey) ==
  /\ rpc = "idle"
  /\ IF hasKey
     THEN /\ rpc' = "call" /\ retries' = RetryCount /\ delay' = RetryBaseDelay
          /\ errs' = errs
     ELSE /\ rpc' = "thrown" /\ errs' = <<MissingKey>>
          /\ UNCHANGED <<retries, delay>>
  /\ UNCHANGED <<attempts, waited>>
  /\ UNCHANGED <<envVars, keyVars, characterImage, referenceImage, selection,
                 isGenerating, isUploading, resultImage, error, sliderVars,
                 canvasVars, ovVars, upVars, gens>>

\* await fn() returns the image
attemptReturns ==
  /\ rpc = "call"
  /\ attempts' = attempts + 1
  /\ rpc' = "returned"
  /\ UNCHANGED <<retries, delay, waited, errs>>
  /\ UNCHANGED <<envVars, keyVars, characterImage, referenceImage, selection,
                 isGenerating, isUploading, resultImage, error, sliderVars,
                 canvasVars, ovVars, upVars, gens>>

\* await fn() throws e: retry waits, or rethrows
attemptFails(e) ==
  /\ rpc = "call"
  /\ attempts' = attempts + 1
  /\ errs' = Append(errs, e)
  /\ rpc' = IF ShouldRetry(retries, e) THEN "wait" ELSE "thrown"
  /\ UNCHANGED <<retries, delay, waited>>
  /\ UNCHANGED <<envVars, keyVars, characterImage, referenceImage, selection,
                 isGenerating, isUploading, resultImage, error, sliderVars,
                 canvasVars, ovVars, upVars, gens>>

\* the setTimeout of retry elapses: retry(fn, retries - 1, delay * 2)
backoffElapsed ==
  /\ rpc = "wait"
  /\ waited' = Append(waited, delay)
  /\ retries' = retries - 1
  /\ delay' = NextDelay(delay)
  /\ rpc' = "call"
  /\ UNCHANGED <<attempts, errs>>
  /\ UNCHANGED <<envVars, keyVars, characterImage, referenceImage, selection,
                 isGenerating, isUploading, resultImage, error, sliderVars,
                 canvasVars, ovVars, upVars, gens>>

\* the message the catch of handleGenerate surfaces
CaughtMessage(e) == IF e.message = "" THEN "Generation failed." ELSE e.message

\* generateFaceSwap rejects with the error retry threw: the catch and the
\* finally of handleGenerate when the call settles the race, nothing otherwise
callRejected(g) ==
  /\ rpc = "thrown"
  /\ gens[g].call = "running"
  /\ gens' = [gens EXCEPT ![g].call = "settled",
                ![g].pc = IF @ = "awaitRace" THEN "done" ELSE @]
  /\ IF gens[g].pc = "awaitRace"
     THEN /\ error' = CaughtMessage(errs[Len(errs)])
          /\ apiKeyReady' = IF "API Key" \in errs[Len(errs)].marks THEN FALSE
                            ELSE apiKeyReady
          /\ isGenerating' = FALSE
          /\ resultImage' = resultImage
     ELSE RaceLost(g)
  /\ UNCHANGED <<envVars, keyChecked, characterImage, referenceImage,
                 selection, isUploading, sliderVars, offscreenResult,
                 refImageElement, upVars, retryVars>>
  /\ OverlayAfter
  /\ RunEffects

InitCommon ==
  /\ apiKeyReady = FALSE /\ keyChecked = FALSE
  /\ characterImage = 0 /\ referenceImage = 0 /\ selection = Null
  /\ isGenerating = FALSE /\ isUploading = FALSE /\ resultImage = 0
  /\ error = NoError
  /\ sliderPosition = SliderDefault /\ isDraggingSlider = FALSE
  /\ offscreenResult = Null /\ refImageElement = 0
  /\ display = Null /\ drawn = Null
  /\ isDragging = FALSE /\ startPos = Null /\ currentBox = Null
  /\ imgNatural = 0 /\ imgPending = FALSE
  /\ refReaders = [i \in SelImages |-> 0] /\ charReader = 0 /\ nUploads = 0
  /\ gens = [g \in Gens |-> NoGen]
  /\ builds = [g \in Gens |-> NoBuild]
  /\ rpc = "idle" /\ retries = 0 /\ delay = 0 /\ attempts = 0
  /\ waited = <<>> /\ errs = <<>>

\* ------------------------------------------------ the App specification
Init ==
  /\ InitCommon
  /\ envKey \in BOOLEAN /\ aistudio \in BOOLEAN
  /\ rect = [w |-> AppRectSide, h |-> AppRectSide]
  /\ genBudget = MaxGen

Next ==
  \/ \E img \in AppImages : handleReferenceUpload(img)
  \/ \E img \in AppImages : referenceReaderOnLoad(img)
  \/ \E img \in AppImages : referenceReaderOnError(img)
  \/ handleCharacterUpload
  \/ \E ok \in BOOLEAN : characterUploadSettled(ok)
  \/ removeCharacter
  \/ \E hasKey \in BOOLEAN : checkApiKey(hasKey)
  \/ \E o \in {"key", "nokey", "throw"} : handleSelectKey(o)
  \/ \E x \in 0..rect.w, y \in 0..rect.h : handleMouseDown(x, y)
  \/ \E x \in 0..rect.w, y \in 0..rect.h : handleMouseMove(x, y)
  \/ handleMouseUp
  \/ imgOnLoad
  \/ generateRefused
  \/ \E g \in Gens : handleGenerate(g)
  \/ \E g \in Gens, o \in {"key", "nokey", "throw"} : keySelected(g, o)
  \/ \E g \in Gens, ok \in BOOLEAN : cropSettled(g, ok)
  \/ \E g \in Gens, o \in {"ok", "apiKey", "service"} : callSettled(g, o)
  \/ \E g \in Gens : timeoutFired(g)
  \/ clearResult
  \/ \E px \in SliderPointer : handleSliderMouseDown(px)
  \/ \E px \in SliderPointer : handleSliderMouseMove(px)
  \/ sliderRelease
  \/ \E g \in Gens, ok \in BOOLEAN : baseLoaded(g, ok)
  \/ \E g \in Gens, ok \in BOOLEAN : patchLoaded(g, ok)
  \/ \E g \in Gens : animationFrame(g)

Spec == Init /\ [][Next]_vars

\* ------------------------------------------ the generation specification
\* The session once the user has loaded the source face and reference image
\* 1 and has committed the square dragged from (0,0) to the far corner, and
\* the mount effect's key check has settled (Spec reaches these states);
\* the user then works the key, generate and clear controls and leaves the
\* comparator alone.
ReadyBox == NaturalBox([x |-> 0, y |-> 0], AppRectSide, AppRectSide,
                       [w |-> AppRectSide, h |-> AppRectSide],
                       NatW(1), NatH(1))

ReadyState ==
  /\ envKey \in BOOLEAN /\ aistudio \in BOOLEAN
  /\ rect = [w |-> AppRectSide, h |-> AppRectSide]
  /\ keyChecked = TRUE
  /\ apiKeyReady \in (IF aistudio THEN BOOLEAN ELSE {envKey})
  /\ characterImage = 1 /\ referenceImage = 1 /\ selection = Some(ReadyBox)
  /\ isGenerating = FALSE /\ isUploading = FALSE /\ resultImage = 0
  /\ error = NoError
  /\ sliderPosition = SliderDefault /\ isDraggingSlider = FALSE
  /\ offscreenResult = Null /\ refImageElement = 0
  /\ display = Null /\ drawn = Null
  /\ isDragging = FALSE /\ startPos = Some([x |-> 0, y |-> 0])
  /\ currentBox = Some(ReadyBox)
  /\ imgNatural = 1 /\ imgPending = FALSE
  /\ refReaders = [i \in SelImages |-> 0] /\ charReader = 0 /\ nUploads = 1
  /\ gens = [g \in Gens |-> NoGen]
  /\ builds = [g \in Gens |-> NoBuild]
  /\ rpc = "idle" /\ retries = 0 /\ delay = 0 /\ attempts = 0
  /\ waited = <<>> /\ errs = <<>>

NextGen ==
  \/ \E o \in {"key", "nokey", "throw"} : handleSelectKey(o)
  \/ \E g \in Gens : handleGenerate(g)
  \/ \E g \in Gens, o \in {"key", "nokey", "throw"} : keySelected(g, o)
  \/ \E g \in Gens, ok \in BOOLEAN : cropSettled(g, ok)
  \/ \E g \in Gens, o \in {"ok", "apiKey", "service"} : callSettled(g, o)
  \/ \E g \in Gens : timeoutFired(g)
  \/ clearResult
  \/ \E g \in Gens, ok \in BOOLEAN : baseLoaded(g, ok)
  \/ \E g \in Gens, ok \in BOOLEAN : patchLoaded(g, ok)
  \/ \E g \in Gens : animationFrame(g)

InitReady == ReadyState /\ genBudget = MaxGen

GenSpec == InitReady /\ [][NextGen]_vars

\* The generation specification with the scheduling the platform gives:
\* the image decode of getCroppedImg settles and an armed timer fires.  The
\* generation call itself may never settle.
GenFairness ==
  \A g \in Gens : /\ WF_vars(\E ok \in BOOLEAN : cropSettled(g, ok))
                  /\ WF_vars(timeoutFired(g))

GenFairSpec == GenSpec /\ GenFairness

\* ------------------------------------------------ the upload specification
\* The session from its first render, restricted to the two uploads, the
\* Remove button, the mount effect's key check and the selection gestures.
InitUpload ==
  /\ InitCommon
  /\ envKey = TRUE /\ aistudio = FALSE
  /\ rect = [w |-> AppRectSide, h |-> AppRectSide]
  /\ genBudget = FewGen

NextUpload ==
  \/ \E img \in AppImages : handleReferenceUpload(img)
  \/ \E img \in AppImages : referenceReaderOnLoad(img)
  \/ \E img \in AppImages : referenceReaderOnError(img)
  \/ handleCharacterUpload
  \/ \E ok \in BOOLEAN : characterUploadSettled(ok)
  \/ removeCharacter
  \/ \E hasKey \in BOOLEAN : checkApiKey(hasKey)
  \/ \E x \in 0..rect.w, y \in 0..rect.h : handleMouseDown(x, y)
  \/ \E x \in 0..rect.w, y \in 0..rect.h : handleMouseMove(x, y)
  \/ handleMouseUp
  \/ imgOnLoad

\* the scheduling the platform gives: a FileReader read ends (with load or
\* with error) and resizeImage settles (its 10 s timer rejects it at the
\* latest)
UploadFairness ==
  /\ \A img \in AppImages :
        WF_vars(referenceReaderOnLoad(img) \/ referenceReaderOnError(img))
  /\ WF_vars(\E ok \in BOOLEAN : characterUploadSettled(ok))

UploadSpec == InitUpload /\ [][NextUpload]_vars /\ UploadFairness

\* ------------------------------------------------- the start specification
\* The session from its first render with the key dialog of the host
\* available: uploads, the Remove button, selection gestures, the generate
\* handler (clicked, or called while an input is missing) and one request,
\* up to the end of that request.
InitStart ==
  /\ InitCommon
  /\ envKey = FALSE /\ aistudio = TRUE
  /\ rect = [w |-> AppRectSide, h |-> AppRectSide]
  /\ genBudget = FewGen

NextStart ==
  \/ \E img \in AppImages : handleReferenceUpload(img)
  \/ \E img \in AppImages : referenceReaderOnLoad(img)
  \/ handleCharacterUpload
  \/ \E ok \in BOOLEAN : characterUploadSettled(ok)
  \/ removeCharacter
  \/ \E hasKey \in BOOLEAN : checkApiKey(hasKey)
  \/ \E x \in 0..rect.w, y \in 0..rect.h : handleMouseDown(x, y)
  \/ \E x \in 0..rect.w, y \in 0..rect.h : handleMouseMove(x, y)
  \/ handleMouseUp
  \/ imgOnLoad
  \/ generateRefused
  \/ \E g \in Gens : handleGenerate(g)
  \/ \E g \in Gens, o \in {"key", "nokey", "throw"} : keySelected(g, o)
  \/ \E g \in Gens, ok \in BOOLEAN : cropSettled(g, ok)
  \/ \E g \in Gens, o \in {"ok", "apiKey", "service"} : callSettled(g, o)
  \/ \E g \in Gens : timeoutFired(g)

StartSpec == InitStart /\ [][NextStart]_vars

\* ----------------------------------------------- the editing specification
\* The session of a user who has loaded the source face and whose key comes
\* from the environment: reference uploads, selection gestures and one
\* generation request with its composite.  (Spec reaches this state.)
InitEdit ==
  /\ envKey = TRUE /\ aistudio = FALSE
  /\ rect = [w |-> AppRectSide, h |-> AppRectSide]
  /\ genBudget = FewGen
  /\ apiKeyReady = TRUE /\ keyChecked = TRUE
  /\ characterImage = 1 /\ referenceImage = 0 /\ selection = Null
  /\ isGenerating = FALSE /\ isUploading = FALSE /\ resultImage = 0
  /\ error = NoError
  /\ sliderPosition = SliderDefault /\ isDraggingSlider = FALSE
  /\ offscreenResult = Null /\ refImageElement = 0
  /\ display = Null /\ drawn = Null
  /\ isDragging = FALSE /\ startPos = Null /\ currentBox = Null
  /\ imgNatural = 0 /\ imgPending = FALSE
  /\ refReaders = [i \in SelImages |-> 0] /\ charReader = 0 /\ nUploads = 0
  /\ gens = [g \in Gens |-> NoGen]
  /\ builds = [g \in Gens |-> NoBuild]
  /\ rpc = "idle" /\ retries = 0 /\ delay = 0 /\ attempts = 0
  /\ waited = <<>> /\ errs = <<>>

NextEdit ==
  \/ \E img \in AppImages : handleReferenceUpload(img)
  \/ \E img \in AppImages : referenceReaderOnLoad(img)
  \/ \E x \in 0..rect.w, y \in 0..rect.h : handleMouseDown(x, y)
  \/ \E x \in 0..rect.w, y \in 0..rect.h : handleMouseMove(x, y)
  \/ handleMouseUp
  \/ imgOnLoad
  \/ \E g \in Gens : handleGenerate(g)
  \/ \E g \in Gens, ok \in BOOLEAN : cropSettled(g, ok)
  \/ \E g \in Gens, o \in {"ok", "apiKey", "service"} : callSettled(g, o)
  \/ \E g \in Gens : timeoutFired(g)
  \/ clearResult
  \/ \E g \in Gens, ok \in BOOLEAN : baseLoaded(g, ok)
  \/ \E g \in Gens, ok \in BOOLEAN : patchLoaded(g, ok)
  \/ \E g \in Gens : animationFrame(g)

EditSpec == InitEdit /\ [][NextEdit]_vars

\* -------------------------------------------------- the retry specification
\* The session while the generation call of its first request runs: the
\* state GenSpec reaches by handleGenerate(1) and cropSettled(1, TRUE).
InitRetry ==
  /\ envKey = TRUE /\ aistudio = FALSE /\ genBudget = FewGen
  /\ rect = [w |-> AppRectSide, h |-> AppRectSide]
  /\ keyChecked = TRUE /\ apiKeyReady = TRUE
  /\ characterImage = 1 /\ referenceImage = 1 /\ selection = Some(ReadyBox)
  /\ isGenerating = TRUE /\ isUploading = FALSE /\ resultImage = 0
  /\ error = NoError
  /\ sliderPosition = SliderDefault /\ isDraggingSlider = FALSE
  /\ offscreenResult = Null /\ refImageElement = 0
  /\ display = Null /\ drawn = Null
  /\ isDragging = FALSE /\ startPos = Some([x |-> 0, y |-> 0])
  /\ currentBox = Some(ReadyBox)
  /\ imgNatural = 1 /\ imgPending = FALSE
  /\ refReaders = [i \in SelImages |-> 0] /\ charReader = 0 /\ nUploads = 1
  /\ gens = [g \in Gens |->
               IF g = 1
               THEN [pc |-> "awaitRace", char |-> 1, ref |-> 1,
                     sel |-> Some(ReadyBox), call |-> "running",
                     timer |-> "armed", prev |-> 0]
               ELSE NoGen]
  /\ builds = [g \in Gens |-> NoBuild]
  /\ rpc = "idle" /\ retries = 0 /\ delay = 0 /\ attempts = 0
  /\ waited = <<>> /\ errs = <<>>

NextRetry ==
  \/ \E hasKey \in BOOLEAN : generateFaceSwap(hasKey)
  \/ attemptReturns
  \/ \E e \in ServiceErrors : attemptFails(e)
  \/ backoffElapsed
  \/ \E g \in Gens : callRejected(g)

RetrySpec == InitRetry /\ [][NextRetry]_vars

\* ------------------------------------------- the selector specification
\* The overlay just after a reference image of any of the sizes was read:
\* the state referenceReaderOnLoad leaves, for any image and any layout.
InitSel ==
  /\ envKey = FALSE /\ aistudio = FALSE /\ genBudget = 0
  /\ rect \in Rects
  /\ apiKeyReady = FALSE /\ keyChecked = FALSE
  /\ characterImage = 0 /\ referenceImage \in SelImages /\ selection = Null
  /\ isGenerating = FALSE /\ isUploading = FALSE /\ resultImage = 0
  /\ error = NoError
  /\ sliderPosition = SliderDefault /\ isDraggingSlider = FALSE
  /\ offscreenResult = Null /\ refImageElement = 0
  /\ display = Null /\ drawn = Null
  /\ isDragging = FALSE /\ startPos = Null /\ currentBox = Null
  /\ imgNatural = 0 /\ imgPending = TRUE
  /\ refReaders = [i \in SelImages |-> 0] /\ charReader = 0 /\ nUploads = 1
  /\ gens = [g \in Gens |-> NoGen]
  /\ builds = [g \in Gens |-> NoBuild]
  /\ rpc = "idle" /\ retries = 0 /\ delay = 0 /\ attempts = 0
  /\ waited = <<>> /\ errs = <<>>

NextSel ==
  \/ \E x \in 0..rect.w, y \in 0..rect.h : handleMouseDown(x, y)
  \/ \E x \in 0..rect.w, y \in 0..rect.h : handleMouseMove(x, y)
  \/ handleMouseUp
  \/ imgOnLoad
  \/ \E r \in Rects : Resize(r)

SelSpec == InitSel /\ [][NextSel]_vars

\* ------------------------------------------- the comparator specification
\* The session of GenSpec with the key taken from the environment, where the
\* user also works the comparator of the compare view.
InitCompare == ReadyState /\ envKey /\ ~aistudio /\ genBudget = MaxGen

NextCompare ==
  \/ \E g \in Gens : handleGenerate(g)
  \/ \E g \in Gens, ok \in BOOLEAN : cropSettled(g, ok)
  \/ \E g \in Gens, o \in {"ok", "service"} : callSettled(g, o)
  \/ clearResult
  \/ \E px \in SliderPointer : handleSliderMouseDown(px)
  \/ \E px \in SliderPointer : handleSliderMouseMove(px)
  \/ sliderRelease
  \/ \E g \in Gens, ok \in BOOLEAN : baseLoaded(g, ok)
  \/ \E g \in Gens, ok \in BOOLEAN : patchLoaded(g, ok)
  \/ \E g \in Gens : animationFrame(g)

CompareSpec == InitCompare /\ [][NextCompare]_vars

\* ---------------------------------------------- the compare-view specification
\* The session at the moment the result of its only request has been stored
\* and its late timeout has fired (the state callSettled(1, "ok") and
\* timeoutFired(1) leave), for a selection of any of the boxes below, boxes
\* that reach past the image included; the user works the comparator and
\* the clear control while the composite is built.
ViewBoxes == {[x |-> bx, y |-> by, width |-> bw, height |-> bw] :
                bx \in {0, 30, 90}, by \in {0, 60}, bw \in {51, 60}}

InitView ==
  /\ envKey = TRUE /\ aistudio = FALSE /\ genBudget = FewGen
  /\ rect = [w |-> AppRectSide, h |-> AppRectSide]
  /\ keyChecked = TRUE /\ apiKeyReady = TRUE
  /\ characterImage = 1 /\ referenceImage = 1
  /\ selection \in {Some(b) : b \in ViewBoxes}
  /\ isGenerating = FALSE /\ isUploading = FALSE /\ resultImage = 1
  /\ error = NoError
  /\ sliderPosition = SliderDefault /\ isDraggingSlider = FALSE
  /\ offscreenResult = Null /\ refImageElement = 0
  /\ display = Null /\ drawn = Null
  /\ isDragging = FALSE /\ startPos = Null /\ currentBox = Null
  /\ imgNatural = 0 /\ imgPending = FALSE
  /\ refReaders = [i \in SelImages |-> 0] /\ charReader = 0 /\ nUploads = 1
  /\ gens = [g \in Gens |->
               IF g = 1
               THEN [pc |-> "done", char |-> 1, ref |-> 1, sel |-> selection,
                     call |-> "settled", timer |-> "fired", prev |-> 0]
               ELSE NoGen]
  /\ builds = [g \in Gens |->
                 IF g = 1
                 THEN [pc |-> "loadBase", isMounted |-> TRUE, ref |-> 1,
                       sel |-> selection, slider |-> SliderDefault,
                       base |-> 0]
                 ELSE NoBuild]
  /\ rpc = "idle" /\ retries = 0 /\ delay = 0 /\ attempts = 0
  /\ waited = <<>> /\ errs = <<>>

NextView ==
  \/ clearResult
  \/ \E px \in SliderPointer : handleSliderMouseDown(px)
  \/ \E px \in SliderPointer : handleSliderMouseMove(px)
  \/ sliderRelease
  \/ \E g \in Gens, ok \in BOOLEAN : baseLoaded(g, ok)
  \/ \E g \in Gens, ok \in BOOLEAN : patchLoaded(g, ok)
  \/ \E g \in Gens : animationFrame(g)

ViewSpec == InitView /\ [][NextView]_vars

\* ------------------------------------------------------ the crop specification
\* The session of GenSpec on the large reference image, with the key taken
\* from the environment, for a committed square of any of the sizes below.
CropBoxes == {[x |-> bx, y |-> by, width |-> bw, height |-> bw] :
                bx \in {0, 100}, by \in {0, 100},
                bw \in {51, 500, 1024, 1025, 1500, 2048}}

InitCrop ==
  /\ envKey = TRUE /\ aistudio = FALSE /\ genBudget = FewGen
  /\ rect = [w |-> AppRectSide, h |-> AppRectSide]
  /\ keyChecked = TRUE /\ apiKeyReady = TRUE
  /\ characterImage = 1 /\ referenceImage = Len(ImgW)
  /\ selection \in {Some(b) : b \in CropBoxes}
  /\ isGenerating = FALSE /\ isUploading = FALSE /\ resultImage = 0
  /\ error = NoError
  /\ sliderPosition = SliderDefault /\ isDraggingSlider = FALSE
  /\ offscreenResult = Null /\ refImageElement = 0
  /\ display = Null /\ drawn = Null
  /\ isDragging = FALSE /\ startPos = Some([x |-> 0, y |-> 0])
  /\ currentBox = selection
  /\ imgNatural = Len(ImgW) /\ imgPending = FALSE
  /\ refReaders = [i \in SelImages |-> 0] /\ charReader = 0 /\ nUploads = 1
  /\ gens = [g \in Gens |-> NoGen]
  /\ builds = [g \in Gens |-> NoBuild]
  /\ rpc = "idle" /\ retries = 0 /\ delay = 0 /\ attempts = 0
  /\ waited = <<>> /\ errs = <<>>

NextCrop ==
  \/ \E g \in Gens : handleGenerate(g)
  \/ \E g \in Gens, ok \in BOOLEAN : cropSettled(g, ok)
  \/ \E g \in Gens, o \in {"ok", "apiKey", "service"} : callSettled(g, o)
  \/ \E g \in Gens : timeoutFired(g)
  \/ clearResult
  \/ \E g \in Gens, ok \in BOOLEAN : baseLoaded(g, ok)
  \/ \E g \in Gens, ok \in BOOLEAN : patchLoaded(g, ok)
  \/ \E g \in Gens : animationFrame(g)

CropSpec == InitCrop /\ [][NextCrop]_vars

\* ------------------------------------------------------------- claims
\* C1: every non-null box the selector emits through onSelectionChange is
\* square: its width equals its height, for every rect and natural size.
C1_SquareEmitted == selection # Null => selection[1].width = selection[1].height

\* witness of C1: a box was committed on an image whose horizontal and
\* vertical scale factors differ
C1_Witness ==
  /\ selection # Null
  /\ imgNatural # 0
  /\ NatW(imgNatural) * rect.h # NatH(imgNatural) * rect.w
  /\ ~isDragging

\* C2: the consumer only ever holds boxes wider than 50 native pixels, and a
\* gesture that ends with a live box of width <= 50 leaves the consumer's
\* selection null and clears the selector's own box.
C2_MinimumSize ==
  /\ [](selection # Null => selection[1].width > 50)
  /\ [][(handleMouseUp /\ currentBox # Null /\ currentBox[1].width <= 50)
          => (selection' = Null /\ currentBox' = Null)]_vars

\* witness of C2: a drag holds a live box that is not empty and not wider
\* than 50, which the gesture end has to discard
C2_Witness ==
  /\ isDragging /\ currentBox # Null
  /\ currentBox[1].width > 0 /\ currentBox[1].width <= 50

\* C3: every committed box lies inside the reference image.
C3_InsideImage ==
  selection # Null =>
    /\ selection[1].x >= 0 /\ selection[1].y >= 0
    /\ selection[1].x + selection[1].width <= NatW(referenceImage)
    /\ selection[1].y + selection[1].height <= NatH(referenceImage)

\* C4: a generation result is stored only if the selection is still the one
\* the request was started with, and no composite places a patch at another
\* selection than the one it was generated for.
C4_StaleSelectionDiscarded ==
  /\ resultImage # 0 => selection = gens[resultImage].sel
  /\ offscreenResult # Null =>
       offscreenResult[1].sel = gens[offscreenResult[1].patch].sel

\* C5: a result generated for an earlier reference image never becomes the
\* result image of the session of a later reference image.
C5_StaleReferenceRejected ==
  resultImage # 0 => referenceImage = gens[resultImage].ref

\* C6: at most one generation request is in flight: from the click until the
\* generation call has settled (the key selection and an abandoned call
\* included) no second request is running.
InFlight(g) ==
  \/ gens[g].pc \in {"awaitKey", "awaitCrop", "awaitRace"}
  \/ gens[g].call = "running"

C6_SingleFlight == Cardinality({g \in Gens : InFlight(g)}) <= 1

\* C7: a composite that renderDisplay draws was built from the current
\* reference image, the current result image and the current selection.
C7_DrawnCompositeCurrent ==
  (drawn # Null /\ drawn[1].comp # Null) =>
    drawn[1].comp[1] = [ref |-> referenceImage, patch |-> resultImage,
                        sel |-> selection]

\* C8: a generation request that fails leaves the reference image, the
\* selection, the source face and the result image as they were when the
\* request was triggered.
RequestFailed(g) ==
  /\ gens[g].pc \in {"awaitCrop", "awaitRace"}
  /\ gens'[g].pc = "done"
  /\ resultImage' # g

C8_FailureKeepsState ==
  [][\A g \in Gens : RequestFailed(g) =>
        /\ resultImage' = gens[g].prev
        /\ referenceImage' = gens[g].ref
        /\ selection' = gens[g].sel
        /\ characterImage' = gens[g].char]_vars

\* C9: the timeout races the generation call and the first to settle wins:
\* a timeout that fires first ends the request with its error and clears
\* the generating flag; the settlement of the abandoned call, and a timeout
\* that fires after the call settled, change neither the result image nor
\* the error.
TimerFires(g) == gens[g].timer = "armed" /\ gens'[g].timer = "fired"
CallSettles(g) == gens[g].call = "running" /\ gens'[g].call = "settled"

C9_FirstSettledWins ==
  [][\A g \in Gens :
       /\ (TimerFires(g) /\ gens[g].pc = "awaitRace") =>
            /\ error' = "Request timed out"
            /\ isGenerating' = FALSE
            /\ gens'[g].pc = "done"
            /\ resultImage' = resultImage
       /\ ((TimerFires(g) \/ CallSettles(g)) /\ gens[g].pc # "awaitRace") =>
            UNCHANGED <<resultImage, error, isGenerating, apiKeyReady>>]_vars

\* witness of C9: the timeout won the only request and the abandoned call
\* settled afterwards
C9_Witness ==
  /\ gens[1].pc = "done" /\ gens[1].timer = "fired"
  /\ gens[1].call = "settled"
  /\ \A g \in Gens : g # 1 => gens[g].pc = "idle"
  /\ error = "Request timed out"

\* C10: when every attempt fails with RateLimited (HTTP 429), retry makes
\* exactly 3 retries after the first attempt, waits 2000, 4000 and 8000 ms,
\* and then throws.
AllRateLimited ==
  /\ errs # <<>>
  /\ \A i \in 1..Len(errs) : errs[i] = RateLimited
  /\ rpc # "returned"

C10_ThreeDoublingRetries ==
  AllRateLimited =>
    /\ attempts <= 4
    /\ Len(waited) <= 3
    /\ \A i \in 1..Len(waited) : waited[i] = <<2000, 4000, 8000>>[i]
    /\ (rpc = "thrown") <=> (Len(errs) = 4)
    /\ rpc = "thrown" => (attempts = 4 /\ waited = <<2000, 4000, 8000>>)

\* witness of C10: four attempts failed with RateLimited and retry threw
C10_Witness ==
  /\ rpc = "thrown"
  /\ errs = <<RateLimited, RateLimited, RateLimited, RateLimited>>

\* C11: for one generateFaceSwap call the generation operation is invoked at
\* most 3 times, whatever retryable failures the service returns.
C11_AtMostThreeInvocations == attempts <= RetryCount

\* C12: a content-policy block (no candidate, IMAGE_SAFETY or SAFETY) is
\* never retried: retry throws it at once, a block answered to the first
\* attempt means one invocation and no backoff wait, and the message the
\* user sees is the block's message.
ContentPolicyBlocks == {ResponseError(r) : r \in {q \in Responses : IsBlocked(q)}}

NoImageErrors ==
  {ResponseError(r) : r \in {q \in Responses : ~IsBlocked(q) /\ ~q.image}}

C13_NoImageNotRetried ==
  (errs # <<>> /\ errs[Len(errs)] \in NoImageErrors) =>
    /\ rpc = "thrown"
    /\ Len(errs) = 1 => (attempts = 1 /\ waited = <<>>)

\* C14: a pointer-down clears the selector's box and notifies the consumer
\* of null in the same step, and while a gesture is building its live box
\* the consumer holds no committed selection.
C14_GestureStartClears ==
  /\ []((isDragging /\ currentBox # Null) => selection = Null)
  /\ [][(\E x \in 0..rect.w, y \in 0..rect.h : handleMouseDown(x, y))
          => (currentBox' = Null /\ selection' = Null /\ isDragging')]_vars

\* witness of C14: a committable live box of a gesture in progress, with
\* nothing at the consumer
C14_Witness ==
  /\ isDragging /\ currentBox # Null /\ selection = Null
  /\ IsCommitted(currentBox[1])

\* C15: the session's selection becomes null whenever a new reference image
\* loads and whenever a result image is cleared (by the clear control or by
\* the start of a new generation).
C15_SelectionDiscarded ==
  [][(referenceImage' # referenceImage \/ (resultImage # 0 /\ resultImage' = 0))
       => selection' = Null]_vars

\* C16: a new reference image resets the selector to idle from any selector
\* state: the step that loads it leaves the selector not dragging, without
\* an anchor and with nothing committed, and the decode of the new image
\* leaves no live box.
C16_LoadResetsSelector ==
  /\ [][referenceImage' # referenceImage
          => (~isDragging' /\ startPos' = Null /\ selection' = Null)]_vars
  /\ [][imgOnLoad => currentBox' = Null]_vars

\* C17: the split position is at its default whenever a new composite is
\* produced: when a new result image is stored and when createComposite
\* stores the composite it built.
C17_SplitResetOnComposite ==
  [][((resultImage' # 0 /\ resultImage' # resultImage)
      \/ (offscreenResult' # Null /\ offscreenResult' # offscreenResult))
       => sliderPosition' = SliderDefault]_vars

\* C18: every pixel of a composite outside its target box (and so outside
\* the box expanded by the feather) is the base image's pixel, the composite
\* has the natural size of the base, and patch pixels appear only inside the
\* target rectangle.
C18_CompositorLocality ==
  offscreenResult # Null =>
    LET c == offscreenResult[1]
        b == c.sel[1]
        f == (15 * b.width) \div 100 + 1
    IN /\ CompositeWidth(c) = NatW(refImageElement)
       /\ CompositeHeight(c) = NatH(refImageElement)
       /\ \A x \in 0..(CompositeWidth(c) - 1), y \in 0..(CompositeHeight(c) - 1) :
            /\ (\/ x < b.x - f \/ x >= b.x + b.width + f
                \/ y < b.y - f \/ y >= b.y + b.height + f)
                 => CompositePixel(c, x, y) = "base"
            /\ CompositePixel(c, x, y) # "base" =>
                 /\ x >= b.x /\ x < b.x + b.width
                 /\ y >= b.y /\ y < b.y + b.height

\* witness of C18: a composite whose target box lies inside the image with
\* base pixels left of it
C18_Witness ==
  /\ offscreenResult # Null
  /\ offscreenResult[1].sel[1].x = 30 /\ offscreenResult[1].sel[1].width = 60
  /\ CompositePixel(offscreenResult[1], 60, offscreenResult[1].sel[1].y + 30) = "patch"
  /\ CompositePixel(offscreenResult[1], 0, 0) = "base"

\* C19: a drawn frame shows the composite in the columns left of the split
\* and the base in the others: the base everywhere at split 0, the composite
\* everywhere at split 100, and the base alone when there is no composite.
C19_RendererSplit ==
  drawn # Null =>
    LET f == drawn[1]
        w == NatW(f.base)
    IN \A x \in 0..(w - 1) :
         /\ f.comp = Null => DisplayColumn(f, x) = "base"
         /\ (f.comp # Null /\ 100 * (x + 1) <= w * f.split)
              => DisplayColumn(f, x) = "composite"
         /\ (f.comp # Null /\ 100 * x >= w * f.split)
              => DisplayColumn(f, x) = "base"
         /\ (f.comp # Null /\ f.split = 0) => DisplayColumn(f, x) = "base"
         /\ (f.comp # Null /\ f.split = 100) => DisplayColumn(f, x) = "composite"

\* witness of C19: a frame was drawn with a composite at split 100
C19_Witness ==
  /\ drawn # Null /\ drawn[1].comp # Null /\ drawn[1].split = 100

\* C20: whatever pointer positions the comparator's pointer-down and
\* pointer-move events carry, sliderPosition stays within [0, 100].
C20_SplitClamped == sliderPosition >= 0 /\ sliderPosition <= 100

\* witness of C20: a comparator drag has put the split on the right edge
C20_Witness == isDraggingSlider /\ sliderPosition = 100

\* C21: when a composite build fails (a decode rejects), the error is
\* surfaced and the result image, the reference image and the selection are
\* left as they were.
C21_CompositeFailureKeepsPatch ==
  [][(\E g \in Gens : baseLoaded(g, FALSE) \/ patchLoaded(g, FALSE))
       => /\ error' = "Failed to create comparison view"
          /\ UNCHANGED <<resultImage, referenceImage, selection>>]_vars

\* witness of C21: a build failed while the session holds a result
C21_Witness ==
  /\ error = "Failed to create comparison view"
  /\ resultImage # 0 /\ builds[resultImage].pc = "done"
  /\ offscreenResult = Null

\* C22: no generation call is made for a box that is not within the bounds
\* of the image it is cropped from.
C22_InvalidRegionRejected ==
  \A g \in Gens :
    gens[g].call # "none" =>
      /\ gens[g].sel[1].x >= 0 /\ gens[g].sel[1].y >= 0
      /\ gens[g].sel[1].x + gens[g].sel[1].width <= NatW(gens[g].ref)
      /\ gens[g].sel[1].y + gens[g].sel[1].height <= NatH(gens[g].ref)

\* C23: the crop of a w x h box is w x h when max(w, h) <= 1024; otherwise
\* its longer side is 1024 and the shorter is scaled by the same ratio (to
\* the nearest pixel); the crop of a square box of side w is a square of side
\* min(w, 1024).
CropDims == {1, 51, 700, 1024, 1025, 1500, 2048, 3000}

C23_CropOutputSize ==
  /\ \A g \in Gens :
       gens[g].call # "none" =>
         /\ CropOf(gens[g]).w = Min(gens[g].sel[1].width, 1024)
         /\ CropOf(gens[g]).h = CropOf(gens[g]).w
  /\ \A w \in CropDims, h \in CropDims :
       LET c == CropSize(w, h)
       IN IF Max(w, h) <= 1024 THEN c = [w |-> w, h |-> h]
          ELSE /\ Max(c.w, c.h) = 1024
               /\ (w >= h) => (c.w = 1024 /\ 2 * Abs(c.h * w - 1024 * h) <= w)
               /\ (h >= w) => (c.h = 1024 /\ 2 * Abs(c.w * h - 1024 * w) <= h)

\* witness of C23: a crop of a square wider than 1024 was sent
C23_Witness ==
  /\ gens[1].call = "running" /\ gens[1].sel[1].width = 2048
  /\ CropOf(gens[1]) = [w |-> 1024, h |-> 1024]

\* C24: every pointer move of a drag builds the box the rule gives: side
\* max(|dx|, |dy|), top-left at the anchor moved back by the side on each
\* axis with a negative delta and clamped to >= 0, native values by floor
\* with the height equal to the width; at 1:1 a drag from (100,100) to
\* (250,300) gives the committable box {100, 100, 200, 200}.
C24_DragGeometry ==
  /\ [](/\ NaturalBox([x |-> 100, y |-> 100], 250, 300,
                      [w |-> 400, h |-> 400], 400, 400)
             = [x |-> 100, y |-> 100, width |-> 200, height |-> 200]
        /\ IsCommitted([x |-> 100, y |-> 100, width |-> 200, height |-> 200]))
  /\ [][\A px \in 0..rect.w, py \in 0..rect.h :
          handleMouseMove(px, py) =>
            LET a == startPos[1]
                dx == px - a.x
                dy == py - a.y
                side == IF Abs(dx) >= Abs(dy) THEN Abs(dx) ELSE Abs(dy)
                ox == Max(0, IF dx < 0 THEN a.x - side ELSE a.x)
                oy == Max(0, IF dy < 0 THEN a.y - side ELSE a.y)
                nw == NatW(imgNatural)
                nh == NatH(imgNatural)
            IN currentBox' =
                 Some([x |-> (ox * nw) \div rect.w, y |-> (oy * nh) \div rect.h,
                       width |-> (side * nw) \div rect.w,
                       height |-> (side * nw) \div rect.w])]_vars

\* witness of C24: a drag towards the top-left of the anchor holds a live
\* box whose origin lies left of and above the anchor
C24_Witness ==
  /\ isDragging /\ currentBox # Null /\ imgNatural # 0
  /\ currentBox[1].width > 0
  /\ currentBox[1].x < ScaleFloor(startPos[1].x, NatW(imgNatural), rect.w)
  /\ currentBox[1].y < ScaleFloor(startPos[1].y, NatH(imgNatural), rect.h)

\* C25: for every display point p of the rect, the display coordinate of
\* the native coordinate of p differs from p by less than the extent of one
\* native pixel (display / natural), on each axis.
C25_CoordinateRoundTrip ==
  imgNatural # 0 =>
    /\ \A p \in 0..rect.w :
         LET d == ToDisplay(ScaleFloor(p, NatW(imgNatural), rect.w),
                            NatW(imgNatural), rect.w)
         IN Abs(p * d.den - d.num) < rect.w
    /\ \A p \in 0..rect.h :
         LET d == ToDisplay(ScaleFloor(p, NatH(imgNatural), rect.h),
                            NatH(imgNatural), rect.h)
         IN Abs(p * d.den - d.num) < rect.h

\* witness of C25: a box with a non-zero origin was built on an image that
\* is displayed smaller than its natural size, with different scale factors
\* on the two axes
C25_Witness ==
  /\ imgNatural # 0 /\ currentBox # Null
  /\ NatW(imgNatural) > rect.w /\ NatH(imgNatural) > rect.h
  /\ NatW(imgNatural) * rect.h # NatH(imgNatural) * rect.w
  /\ currentBox[1].x > 0 /\ currentBox[1].y > 0

\* C26: pointer moves never notify the consumer, and for the whole time the
\* selector is dragging the consumer's selection is null.
C26_PreviewOnly ==
  /\ [](isDragging => selection = Null)
  /\ [][(\E px \in 0..rect.w, py \in 0..rect.h : handleMouseMove(px, py))
          => selection' = selection]_vars

\* witness of C26: a drag holds a live box that is too small to commit
\* while the consumer holds nothing
C26_Witness ==
  /\ isDragging /\ currentBox # Null /\ selection = Null
  /\ ~IsCommitted(currentBox[1])

\* C27: a composite build that was superseded before its decodes completed
\* stores nothing and schedules no render, and a composite is only ever
\* stored for the current reference image, result image and selection.
C27_SupersededBuildDropped ==
  [][/\ \A g \in Gens :
          (builds[g].pc = "loadPatch" /\ ~builds[g].isMounted
             /\ builds'[g].pc # "loadPatch")
            => (offscreenResult' = offscreenResult /\ builds'[g].pc = "done")
     /\ offscreenResult' # offscreenResult =>
          offscreenResult' = Some([ref |-> referenceImage',
                                   patch |-> resultImage',
                                   sel |-> selection'])]_vars

\* witness of C27: the build for the first result was superseded and
\* returned without storing anything
C27_Witness ==
  /\ builds[1].pc = "done" /\ ~builds[1].isMounted /\ builds[1].base # 0
  /\ offscreenResult = Null /\ error = NoError

\* C28: the cached base element, when there is one, was decoded from the
\* current reference image.
C28_BaseCacheCurrent ==
  refImageElement # 0 => refImageElement = referenceImage

\* C29: a session that holds a result image holds a reference image and a
\* selection.
C29_ResultHasSelection ==
  resultImage # 0 => (referenceImage # 0 /\ selection # Null)

\* C30: the frame on the display canvas was drawn at the current split
\* position.
C30_DisplayAtCurrentSplit ==
  display # Null => display[1].split = sliderPosition

\* C31: every generation request terminates: a set generating flag is
\* eventually cleared and every started request reaches its end, whether
\* the crop fails, the call succeeds or fails, or the call never settles;
\* and the request ends either by storing its result and no error or by
\* setting an error and no result.
RequestEnds(g) ==
  gens[g].pc \in {"awaitCrop", "awaitRace"} /\ gens'[g].pc = "done"

C31_RequestTerminates ==
  /\ isGenerating ~> ~isGenerating
  /\ \A g \in Gens : (gens[g].pc \in {"awaitCrop", "awaitRace"}) ~> (gens[g].pc = "done")
  /\ [][\A g \in Gens : RequestEnds(g) =>
          /\ ~isGenerating'
          /\ \/ (resultImage' = g /\ error' = error)
             \/ (resultImage' = resultImage /\ resultImage' # g
                 /\ error' # NoError)]_vars

\* witness of C31: the call of the first request never settled, the timeout
\* ended the request with its error and cleared the flag
C31_Witness ==
  /\ gens[1].pc = "done" /\ gens[1].timer = "fired" /\ gens[1].call = "running"
  /\ ~isGenerating /\ resultImage = 0 /\ error = "Request timed out"

\* the statement of C31 as written: in the state in which the generating
\* flag has just been cleared, exactly one of the result image and the
\* error is set. An error written meanwhile by another handler stays beside
\* the result of a request that succeeds.
C31_ExactlyOneOnClearing ==
  [][(isGenerating /\ ~isGenerating')
        => ((resultImage' # 0) # (error' # NoError))]_vars

\* C32: every upload terminates: whenever the uploading flag is set it is
\* eventually cleared, whether the read and decode succeed or fail, so that
\* the generate control is never left disabled forever by an upload.
C32_UploadTerminates == isUploading ~> ~isUploading

\* C33: the generate handler called while the source face, the reference
\* image or the selection is missing starts nothing: no request leaves its
\* idle state (no crop is extracted, no generation call is made), and the
\* step that sets the missing-input message leaves the generating flag and
\* the result image as they were.  A request that has been started holds a
\* source face, a reference image and a selection of positive width and
\* height.
C33_Started(g) ==
  gens[g].pc \in {"awaitCrop", "awaitRace"} \/ gens[g].call # "none"

C33_RefusedWhenMissing ==
  /\ [](\A g \in Gens : C33_Started(g) =>
          /\ gens[g].char # 0 /\ gens[g].ref # 0 /\ gens[g].sel # Null
          /\ gens[g].sel[1].width > 0 /\ gens[g].sel[1].height > 0)
  /\ [][MissingInput(characterImage, referenceImage, selection) =>
          /\ \A g \in Gens : gens[g].pc = "idle" => gens'[g].pc = "idle"
          /\ (error' = MissingInputMessage /\ error # MissingInputMessage)
               => UNCHANGED <<gens, isGenerating, resultImage, characterImage,
                              referenceImage, selection, apiKeyReady>>]_vars

\* witness of C33: with the reference loaded and a region committed but no
\* source face, the handler has set its message and no request has started
C33_Witness ==
  /\ characterImage = 0 /\ referenceImage # 0 /\ selection # Null
  /\ error = MissingInputMessage
  /\ \A g \in Gens : gens[g].pc = "idle"
  /\ ~isGenerating /\ resultImage = 0

====
